---- MODULE Spec2Model ----
(***************************************************************************)
(* Model of the stage-3 diagnostics of the Eureka pipeline:                *)
(*   - eureka.lib.medstddev.medstddev, the masked median / deviation about *)
(*     the median (its source is not part of the excerpt; it is modelled   *)
(*     from the specification and pinned by tests/test_general.py);        *)
(*   - eureka/S3_data_reduction/plots_s3.py, the twelve plotting routines: *)
(*     metadata defaulting, file-name construction with zero padding, the  *)
(*     rendering events and the files written.                             *)
(*                                                                         *)
(* Floating point values are modelled exactly: a finite sample is an       *)
(* integer, a non-finite sample is one of "NaN", "PosInf", "NegInf", a     *)
(* median is a rational [num, den] in lowest terms and a standard          *)
(* deviation is kept as its square, std = sqrt(sq.num / sq.den).           *)
(***************************************************************************)
EXTENDS Integers, Sequences, FiniteSets, TLC

VARIABLES
    med_in,     \* arguments of the medstddev call: [data, mask, medi]
    med_out,    \* what medstddev returned ("pending" before the call)
    pad_in,     \* arguments of a padding computation: [count, a, b]
    pad_out,    \* the padded strings computed from pad_in
    meta,       \* the metadata object (attributes read or defaulted by plots_s3)
    fs,         \* the paths that exist under the output directory
    events,     \* rendering-library calls of the last invocation, in order
    stdout,     \* lines printed by the last invocation
    call,       \* the last invocation: routine, indices, paths and images it wrote
    ncalls,     \* number of invocations so far
    plt,        \* pyplot: the current figure and what is drawn on each figure
    invoked,    \* the invocations that returned: routine, indices and paths
    pc          \* where the program is: idle, or inside a plt.pause of the
                \* loop of image_and_background with iteration n to come

vars == <<med_in, med_out, pad_in, pad_out, meta, fs, events, stdout, call, ncalls,
          plt, invoked, pc>>
med_vars == <<med_in, med_out>>
pad_vars == <<pad_in, pad_out>>
plot_vars == <<meta, fs, events, stdout, call, ncalls, plt, invoked, pc>>

-----------------------------------------------------------------------------
(* Bounds of the model *)

MaxLen == 3          \* longest generated input sequence of medstddev
MaxVal == 3          \* generated finite samples are 0..MaxVal
MaxCount == 30       \* padding is computed for every count 1..MaxCount
RunCount == 10       \* files, integrations and columns of the modelled run
MaxLoop == 2         \* meta.int_end is 0 or MaxLoop
MaxCalls == 2        \* invocations of plotting routines in one behaviour

-----------------------------------------------------------------------------
(* Numbers *)

(* Python values are records tagged by k, so that values of different      *)
(* types can be stored in one place and compared.                          *)
None == [k |-> "None"]
NaN == [k |-> "nan"]
PosInf == [k |-> "inf"]
NegInf == [k |-> "-inf"]
Fin(n) == [k |-> "fin", v |-> n]

Abs(x) == IF x < 0 THEN -x ELSE x

RECURSIVE Gcd(_, _)
Gcd(a, b) == IF b = 0 THEN Abs(a) ELSE Gcd(b, a % b)

\* the rational n/d (d > 0) in lowest terms
Rat(n, d) == LET g == Gcd(n, d) IN [k |-> "rat", num |-> n \div g, den |-> d \div g]

\* the non-negative square root of the rational n/d (d > 0)
Sqrt(n, d) == LET g == Gcd(n, d) IN [k |-> "sqrt", num |-> n \div g, den |-> d \div g]

\* np.isfinite
isfinite(x) == x.k = "fin"

-----------------------------------------------------------------------------
(* medstddev(data, mask=None, medi=False)                                   *)

\* an explicit mask array
Mask(a) == [k |-> "array", a |-> a]

\* the input arrays and masks of test_medstddev
TestA == <<Fin(1), Fin(3), Fin(4), Fin(5), Fin(6), Fin(7), Fin(7)>>
TestAMask == Mask(<<1, 1, 1, 0, 0, 0, 0>>)
TestInvalid == <<NaN, Fin(1), Fin(4), PosInf, Fin(6)>>
TestCritical == <<Fin(1), Fin(4), Fin(6)>>
TestOneMask == Mask(<<0, 0, 1>>)
TestNoneMask == Mask(<<0, 0, 0>>)

\* a mask entry that is not zero keeps the sample: the mask [1,1,1,0,0,0,0]
\* over [1,3,4,5,6,7,7] leaves 1,3,4; [0,0,1] over [1,4,6] leaves 6; and
\* [0,0,0] leaves nothing
MaskKeeps_zero(entry) == entry = 0
MaskKeeps(entry) == entry # 0

\* step 1: sample i is good iff its mask entry keeps it and it is finite
IsGood(data, mask, i) ==
    /\ isfinite(data[i])
    /\ (mask = None \/ MaskKeeps(mask.a[i]))

\* the good samples, in input order
RECURSIVE GoodFrom(_, _, _)
GoodFrom(data, mask, i) ==
    IF i > Len(data) THEN <<>>
    ELSE (IF IsGood(data, mask, i) THEN <<data[i].v>> ELSE <<>>)
         \o GoodFrom(data, mask, i + 1)
GoodValues(data, mask) == GoodFrom(data, mask, 1)

\* insertion into a sorted sequence, and sorting
RECURSIVE Insert(_, _)
Insert(x, s) ==
    IF s = <<>> THEN <<x>>
    ELSE IF x <= Head(s) THEN <<x>> \o s
    ELSE <<Head(s)>> \o Insert(x, Tail(s))
RECURSIVE Sort(_)
Sort(s) == IF s = <<>> THEN <<>> ELSE Insert(Head(s), Sort(Tail(s)))

\* twice the median of a non-empty sequence: the middle element of the sorted
\* values, or the mean of the two middle elements
Median2_low(vals) ==
    LET s == Sort(vals)
        n == Len(s)
    IN 2 * s[(n + 1) \div 2]
Median2(vals) ==
    LET s == Sort(vals)
        n == Len(s)
    IN IF n % 2 = 1 THEN 2 * s[(n + 1) \div 2]
       ELSE s[n \div 2] + s[n \div 2 + 1]

\* sum over the values of (2*v - c2)^2, i.e. four times sum((v - c2/2)^2)
RECURSIVE SumSq4(_, _)
SumSq4(vals, c2) ==
    IF vals = <<>> THEN 0
    ELSE (2 * Head(vals) - c2) * (2 * Head(vals) - c2) + SumSq4(Tail(vals), c2)

\* the divisor of the sum of squares: n_good - 1
Dof_population(ngood) == ngood
Dof(ngood) == ngood - 1

\* step 5: the deviation about the median
StdAbout(vals, c2) == Sqrt(SumSq4(vals, c2), 4 * Dof(Len(vals)))

\* step 4: the deviation of a single good value is 0.0
SingleStd_undefined == NaN
SingleStd == Sqrt(0, 1)

\* step 3: the deviation and median when nothing is good
EmptyStd_zero == Sqrt(0, 1)
EmptyStd == NaN
EmptyMed == NaN

\* steps 2-5: the pair (std, median)
StdMed(data, mask) ==
    LET good == GoodValues(data, mask)
        ngood == Len(good)
    IN IF ngood = 0 THEN <<EmptyStd, EmptyMed>>
       ELSE IF ngood = 1 THEN <<SingleStd, Rat(good[1], 1)>>
       ELSE <<StdAbout(good, Median2(good)), Rat(Median2(good), 2)>>

\* step 6: the pair when medi is set, else the deviation alone
medstddev(data, mask, medi) ==
    IF medi THEN [k |-> "pair", std |-> StdMed(data, mask)[1],
                  med |-> StdMed(data, mask)[2]]
    ELSE [k |-> "std", std |-> StdMed(data, mask)[1]]

\* the generated arguments: every sequence of at most MaxLen samples, with no
\* mask or a mask of zeros and ones of the same shape, and the calls of the test
Samples == {Fin(n) : n \in 0..MaxVal} \cup {NaN, PosInf, NegInf}
SeqsUpTo(S, n) == UNION {[1..l -> S] : l \in 0..n}
MaskArgs(data) == {None} \cup {Mask(a) : a \in [1..Len(data) -> {0, 1}]}
TestCalls ==
    {[data |-> TestA, mask |-> None, medi |-> TRUE],
     [data |-> TestA, mask |-> TestAMask, medi |-> TRUE],
     [data |-> TestInvalid, mask |-> None, medi |-> TRUE],
     [data |-> TestCritical, mask |-> TestOneMask, medi |-> TRUE],
     [data |-> TestCritical, mask |-> TestNoneMask, medi |-> TRUE]}
Pending == [k |-> "pending"]

MedInit ==
    /\ \/ med_in \in TestCalls
       \/ \E d \in SeqsUpTo(Samples, MaxLen) :
              \E m \in MaskArgs(d), f \in BOOLEAN :
                  med_in = [data |-> d, mask |-> m, medi |-> f]
    /\ med_out = Pending
MedIdle == med_in = [data |-> <<>>, mask |-> None, medi |-> FALSE] /\ med_out = Pending

\* the call itself
Call_medstddev ==
    /\ med_out = Pending
    /\ med_out' = medstddev(med_in.data, med_in.mask, med_in.medi)
    /\ UNCHANGED med_in

-----------------------------------------------------------------------------
(* File names: str(index).zfill(int(np.floor(np.log10(count)) + 1))         *)

Digit(d) ==
    CASE d = 0 -> "0" [] d = 1 -> "1" [] d = 2 -> "2" [] d = 3 -> "3"
      [] d = 4 -> "4" [] d = 5 -> "5" [] d = 6 -> "6" [] d = 7 -> "7"
      [] d = 8 -> "8" [] d = 9 -> "9"

\* str(n) for n >= 0, as the sequence of its characters
RECURSIVE str(_)
str(n) == IF n < 10 THEN <<Digit(n)>> ELSE str(n \div 10) \o <<Digit(n % 10)>>

\* s.zfill(width) for a string without sign: zeros on the left up to width,
\* and s itself when it is already that long
zfill_none(s, width) == s
RECURSIVE zfill(_, _)
zfill(s, width) == IF Len(s) >= width THEN s ELSE zfill(<<"0">> \o s, width)

\* np.floor(np.log10(count)) for count >= 1 (log10 is exact on the powers of
\* ten in the range modelled)
RECURSIVE floor_log10(_)
floor_log10(count) == IF count < 10 THEN 0 ELSE 1 + floor_log10(count \div 10)

\* int(np.floor(np.log10(count)) + 1): the number of digits of count
pad_width_of_last(count) == IF count = 1 THEN 1 ELSE floor_log10(count - 1) + 1
pad_width(count) == floor_log10(count) + 1

\* the characters of a zero-padded index
padded(index, count) == zfill(str(index), pad_width(count))

\* the string made of the characters
RECURSIVE Join(_)
Join(chars) == IF chars = <<>> THEN "" ELSE Head(chars) \o Join(Tail(chars))

file_number(m, mt) == Join(padded(m, mt.num_data_files))
int_number(n, mt) == Join(padded(n, mt.n_int))
col_number(i, nx) == Join(padded(i, nx))

\* os.sep, and the extension imported from eureka.lib.plots
os_sep == "/"
figure_filetype == ".png"

fname_lc_nodriftcorr == "figs" \o os_sep \o "fig3101-2D_LC" \o figure_filetype
fname_image_and_background(m, n, mt) ==
    "figs" \o os_sep \o "fig3301_file" \o file_number(m, mt) \o "_int"
    \o int_number(n, mt) \o "_ImageAndBackground" \o figure_filetype
fname_drift_2D == "figs" \o os_sep \o "fig3105_Drift2D" \o figure_filetype
fname_optimal_spectrum_tag(m, n, mt) ==
    "figs" \o os_sep \o "fig3303_file" \o file_number(m, mt) \o "_int"
    \o int_number(n, mt) \o "_Spectrum" \o figure_filetype
fname_optimal_spectrum(m, n, mt) ==
    "figs" \o os_sep \o "fig3302_file" \o file_number(m, mt) \o "_int"
    \o int_number(n, mt) \o "_Spectrum" \o figure_filetype
fname_source_position(m, n, mt) ==
    "figs" \o os_sep \o "fig3102_file" \o file_number(m, mt) \o "_int"
    \o int_number(n, mt) \o "_source_pos" \o figure_filetype
fname_profile_noint(m, n, mt) ==
    "figs" \o os_sep \o "fig3303_file" \o file_number(m, mt) \o "_Profile"
    \o figure_filetype
fname_profile(m, n, mt) ==
    "figs" \o os_sep \o "fig3303_file" \o file_number(m, mt) \o "_int"
    \o int_number(n, mt) \o "_Profile" \o figure_filetype
fname_subdata(m, n, i, nx, mt) ==
    "figs" \o os_sep \o "fig3501_file" \o file_number(m, mt) \o "_int"
    \o int_number(n, mt) \o "_col" \o col_number(i, nx) \o "_subdata"
    \o figure_filetype
fname_driftypos == "figs" \o os_sep \o "fig3103_DriftYPos" \o figure_filetype
fname_driftywidth == "figs" \o os_sep \o "fig3104_DriftYWidth" \o figure_filetype
fname_residualBackground(m, mt) ==
    "figs" \o os_sep \o "fig3304_file" \o file_number(m, mt) \o "_ResidualBG"
    \o figure_filetype
fname_curvature == "figs" \o os_sep \o "fig3106_Curvature" \o figure_filetype
fname_median_frame == "figs" \o os_sep \o "fig3401_MedianFrame" \o figure_filetype

\* the figure each routine selects with plt.figure
Fig_lc_nodriftcorr == 3101
Fig_image_and_background == 3301
Fig_drift_2D == 3105
Fig_optimal_spectrum == 3302
Fig_source_position == 3102
Fig_profile == 3303
Fig_subdata == 3501
Fig_driftypos == 3103
Fig_driftywidth == 3104
Fig_residualBackground == 3304
Fig_curvature == 3106
Fig_median_frame == 3401

-----------------------------------------------------------------------------
(* The padding computation on its own: one count and two indices below it   *)

PadCounts == (1..MaxCount) \cup {100, 1000}
PadIndices(count) == {x \in (0..MaxCount) \cup {99, 100, 999} : x < count}

PadArgs ==
    UNION {{[count |-> c, a |-> x, b |-> y] :
                x \in PadIndices(c), y \in PadIndices(c)} : c \in PadCounts}
PadInit ==
    /\ pad_in \in {p \in PadArgs : p.a <= p.b}
    /\ pad_out = Pending
PadIdle == pad_in = [count |-> 1, a |-> 0, b |-> 0] /\ pad_out = Pending

Pad ==
    /\ pad_out = Pending
    /\ pad_out' = [k |-> "padded",
                   sa |-> padded(pad_in.a, pad_in.count),
                   sb |-> padded(pad_in.b, pad_in.count)]
    /\ UNCHANGED pad_in

-----------------------------------------------------------------------------
(* The metadata object and the rendering library                           *)

Absent == [k |-> "absent"]              \* the attribute is not set
Float(repr) == [k |-> "float", v |-> repr]
Str(chars) == [k |-> "str", v |-> chars]

hasattr(mt, name) == mt[name] # Absent

\* one call into the log, print or pyplot
Ev(op, arg) == [op |-> op, arg |-> arg]
Draws(ops) == [j \in 1..Len(ops) |-> Ev(ops[j], None)]

\* plt.savefig(meta.outputdir+fname) and the pause that follows it unless
\* meta.hide_plots
Save(mt, fname, seconds) ==
    <<Ev("savefig", Str(mt.outputdir \o fname))>>
    \o (IF ~mt.hide_plots THEN <<Ev("pause", Float(seconds))>> ELSE <<>>)

\* plt.figure(num); plt.clf(); the drawing calls; savefig; pause
Render_noclf(mt, num, draws, fname, seconds) ==
    <<Ev("figure", Fin(num))>> \o draws \o Save(mt, fname, seconds)
Render(mt, num, draws, fname, seconds) ==
    <<Ev("figure", Fin(num)), Ev("clf", None)>> \o draws \o Save(mt, fname, seconds)

\* the paths saved by a sequence of calls, in order
RECURSIVE Saved(_)
Saved(evs) ==
    IF evs = <<>> THEN <<>>
    ELSE (IF Head(evs).op = "savefig" THEN <<Head(evs).arg.v>> ELSE <<>>)
         \o Saved(Tail(evs))

Range(seq) == {seq[j] : j \in 1..Len(seq)}

\* the figures of the module
Figures ==
    {Fig_lc_nodriftcorr, Fig_image_and_background, Fig_drift_2D,
     Fig_optimal_spectrum, Fig_source_position, Fig_profile, Fig_subdata,
     Fig_driftypos, Fig_driftywidth, Fig_residualBackground, Fig_curvature,
     Fig_median_frame}

\* the drawing calls: those that neither select, clear, save, pause nor log
IsDraw(ev) ==
    ev.op \notin {"figure", "subplots", "clf", "savefig", "pause", "writelog"}

\* the calls among the first j of a sequence that make a figure current:
\* figure and subplots(num=)
Selects(evs, j) == {i \in 1..j : evs[i].op \in {"figure", "subplots"}}

Last(S) == CHOOSE i \in S : \A k \in S : k <= i

\* the figure that is current after the first j calls of a sequence, sel
\* being the calls that select
CurrentOf(p, evs, sel, j) ==
    LET T == {s \in sel : s <= j}
    IN  IF T = {} THEN p.current ELSE evs[Last(T)].arg

CurrentAt(p, evs, j) == CurrentOf(p, evs, Selects(evs, j), j)

\* figure f as it is drawn after the first j calls of a sequence: clf empties
\* the current figure, a drawing call adds to it
CanvasAt(p, evs, j, f) ==
    LET sel == Selects(evs, j)
        C == {i \in 1..j : /\ evs[i].op = "clf"
                           /\ CurrentOf(p, evs, sel, i) = Fin(f)}
        from == IF C = {} THEN 0 ELSE Last(C)
        D == SelectSeq([i \in 1..j |-> i],
                       LAMBDA i : /\ i > from
                                  /\ IsDraw(evs[i])
                                  /\ CurrentOf(p, evs, sel, i) = Fin(f))
    IN  (IF C = {} THEN p.canvas[f] ELSE <<>>)
        \o [k \in 1..Len(D) |-> evs[D[k]].op]

\* pyplot after a sequence of calls
Replay(p, evs) ==
    LET n == Len(evs)
        touched == {evs[i].arg.v : i \in Selects(evs, n)}
    IN  [current |-> CurrentAt(p, evs, n),
         canvas |-> [f \in Figures |->
                        IF f \in touched THEN CanvasAt(p, evs, n, f)
                        ELSE p.canvas[f]]]

\* what each savefig of a sequence of calls writes: the current figure as it
\* is drawn at that moment
SavedImages(p, evs) ==
    LET S == SelectSeq([i \in 1..Len(evs) |-> i],
                       LAMBDA i : evs[i].op = "savefig")
    IN  [k \in 1..Len(S) |->
            CanvasAt(p, evs, S[k], CurrentAt(p, evs, S[k]).v)]

\* the indices a caller passes: the first and the last index below the count
Indices(count) == {0, count - 1}

\* no invocation is under way
Idle == [at |-> "idle"]

\* the calls evs of a routine that is entered; it returns, or it stays in the
\* plt.pause that ends evs with iteration n of its loop to come
Enter(routine, args, mt, printed, evs, returns, n) ==
    /\ pc = Idle
    /\ ncalls < MaxCalls
    /\ ncalls' = ncalls + 1
    /\ meta' = mt
    /\ stdout' = printed
    /\ events' = evs
    /\ fs' = fs \cup Range(Saved(events'))
    /\ call' = [routine |-> routine, args |-> args, wrote |-> Saved(events'),
                saved |-> SavedImages(plt, events')]
    /\ plt' = Replay(plt, events')
    /\ IF returns
       THEN /\ pc' = Idle
            /\ invoked' = invoked \cup {[routine |-> routine, args |-> args,
                                         wrote |-> call'.wrote]}
       ELSE /\ pc' = [at |-> "pause", n |-> n]
            /\ invoked' = invoked
    /\ UNCHANGED <<med_vars, pad_vars>>

\* what an invocation that returns without waiting in between leaves behind
Invoke(routine, args, mt, printed, evs) ==
    Enter(routine, args, mt, printed, evs, TRUE, 0)

-----------------------------------------------------------------------------
(* lc_nodriftcorr(meta, wave_1d, optspec, optmask=None)                     *)

default_vmin(mt) ==
    IF ~hasattr(mt, "vmin") \/ mt.vmin = None
    THEN [mt EXCEPT !.vmin = Float("0.97")] ELSE mt

\* the second test reads meta.vmin, which the line before has set
default_vmax(mt) ==
    IF ~hasattr(mt, "vmax") \/ mt.vmin = None
    THEN [mt EXCEPT !.vmax = Float("1.03")] ELSE mt

time_axis_unset(mt) == ~hasattr(mt, "time_axis") \/ mt.time_axis = None

time_axis_valid_any(mt) == TRUE
time_axis_valid(mt) == mt.time_axis \in {Str("y"), Str("x")}

default_time_axis(mt) ==
    IF time_axis_unset(mt) THEN [mt EXCEPT !.time_axis = Str("y")]
    ELSE IF ~time_axis_valid(mt) THEN [mt EXCEPT !.time_axis = Str("y")]
    ELSE mt

time_axis_warning(mt) ==
    IF ~time_axis_unset(mt) /\ ~time_axis_valid(mt)
    THEN <<"WARNING: meta.time_axis is not one of ['y', 'x']! Using 'y' by default.">>
    ELSE <<>>

lc_draws(mt) ==
    <<Ev("imshow", [time_axis |-> mt.time_axis, vmin |-> mt.vmin, vmax |-> mt.vmax])>>
    \o Draws(<<"ylabel", "xlabel", "title", "colorbar", "tight_layout">>)

lc_nodriftcorr ==
    LET mt == default_time_axis(default_vmax(default_vmin(meta)))
    IN Invoke("lc_nodriftcorr", [none |-> TRUE], mt, time_axis_warning(meta),
              Render(mt, Fig_lc_nodriftcorr, lc_draws(mt), fname_lc_nodriftcorr, "0.2"))

-----------------------------------------------------------------------------
(* image_and_background(data, meta, log, m)                                 *)

image_draws ==
    Draws(<<"suptitle", "subplot", "title", "imshow", "colorbar", "ylabel",
            "subplot", "title", "imshow", "colorbar", "ylabel", "xlabel",
            "tight_layout">>)

\* the body of the loop for n in range(meta.int_end - meta.int_start), from
\* iteration n on; range of a number that is not positive is empty
image_once(mt, m, n, count) ==
    IF n = 0 /\ count > 0
    THEN Render(mt, Fig_image_and_background, image_draws,
                fname_image_and_background(m, n, mt), "0.2")
    ELSE <<>>
RECURSIVE image_loop(_, _, _, _)
image_loop(mt, m, n, count) ==
    IF n >= count THEN <<>>
    ELSE Render(mt, Fig_image_and_background, image_draws,
                fname_image_and_background(m, n, mt), "0.2")
         \o image_loop(mt, m, n + 1, count)

\* the iteration after the ones made in one go from iteration n: without
\* plt.pause the loop runs to its end, with it the program waits in the
\* pause of every iteration
image_next(mt, n, count) ==
    IF mt.hide_plots \/ n + 1 >= count THEN count ELSE n + 1

\* the calls from iteration n up to the pause the program waits in next, or
\* to the end of the loop
image_until_pause(mt, m, n, count) ==
    image_loop(mt, m, n, image_next(mt, n, count))

image_and_background(m) ==
    LET count == meta.int_end - meta.int_start
        next == image_next(meta, 0, count)
    IN  Enter("image_and_background", [m |-> m], meta, <<>>,
              <<Ev("writelog", [mute |-> ~meta.verbose])>>
              \o image_until_pause(meta, m, 0, count),
              next >= count, next)

\* plt.pause returns inside the loop: the iterations from pc.n on, up to the
\* next pause or to the return
image_resume ==
    /\ pc # Idle
    /\ LET count == meta.int_end - meta.int_start
           next == image_next(meta, pc.n, count)
           evs == image_until_pause(meta, call.args.m, pc.n, count)
       IN  /\ events' = events \o evs
           /\ fs' = fs \cup Range(Saved(evs))
           /\ call' = [call EXCEPT !.wrote = @ \o Saved(evs),
                                   !.saved = @ \o SavedImages(plt, evs)]
           /\ plt' = Replay(plt, evs)
           /\ IF next >= count
              THEN /\ pc' = Idle
                   /\ invoked' = invoked \cup {[routine |-> call.routine,
                                                args |-> call.args,
                                                wrote |-> call'.wrote]}
              ELSE /\ pc' = [at |-> "pause", n |-> next]
                   /\ invoked' = invoked
    /\ UNCHANGED <<meta, stdout, ncalls, med_vars, pad_vars>>

-----------------------------------------------------------------------------
(* The routines that draw one figure                                       *)

drift_2D ==
    Invoke("drift_2D", [none |-> TRUE], meta, <<>>,
           Render(meta, Fig_drift_2D,
                  Draws(<<"subplot", "plot", "plot", "ylabel", "subplot", "plot",
                          "plot", "ylabel", "xlabel", "tight_layout">>),
                  fname_drift_2D, "0.2"))

optimal_spectrum(n, m) ==
    Invoke("optimal_spectrum", [m |-> m, n |-> n], meta, <<>>,
           Render(meta, Fig_optimal_spectrum,
                  Draws(<<"suptitle", "semilogy", "errorbar", "ylabel", "xlabel",
                          "legend", "tight_layout">>),
                  fname_optimal_spectrum(m, n, meta), "0.2"))

source_position_draws(isgauss, isFWM) ==
    Draws(<<"plot">>)
    \o (IF isgauss THEN Draws(<<"plot", "axvline", "xlim">>)
        ELSE IF isFWM THEN Draws(<<"axvline">>) ELSE <<>>)
    \o Draws(<<"axvline", "ylabel", "xlabel", "legend", "tight_layout">>)

source_position(m, n, isgauss, isFWM) ==
    Invoke("source_position", [m |-> m, n |-> n], meta, <<>>,
           Render(meta, Fig_source_position, source_position_draws(isgauss, isFWM),
                  fname_source_position(m, n, meta), "0.2"))

profile(n, m) ==
    Invoke("profile", [m |-> m, n |-> n], meta, <<>>,
           Render(meta, Fig_profile,
                  Draws(<<"suptitle", "imshow", "ylabel", "xlabel", "tight_layout">>),
                  fname_profile(m, n, meta), "0.2"))

subdata(i, n, m, nx) ==
    Invoke("subdata", [m |-> m, n |-> n, i |-> i, nx |-> nx], meta, <<>>,
           Render(meta, Fig_subdata, Draws(<<"suptitle", "plot", "plot", "plot">>),
                  fname_subdata(m, n, i, nx, meta), "0.1"))

driftypos ==
    Invoke("driftypos", [none |-> TRUE], meta, <<>>,
           Render(meta, Fig_driftypos,
                  Draws(<<"plot", "ylabel", "xlabel", "tight_layout">>),
                  fname_driftypos, "0.2"))

driftywidth ==
    Invoke("driftywidth", [none |-> TRUE], meta, <<>>,
           Render(meta, Fig_driftywidth,
                  Draws(<<"plot", "ylabel", "xlabel", "tight_layout">>),
                  fname_driftywidth, "0.2"))

\* plt.subplots(num=3304) selects the figure again before the axes are drawn
residualBackground(m) ==
    Invoke("residualBackground", [m |-> m], meta, <<>>,
           Render(meta, Fig_residualBackground,
                  <<Ev("subplots", Fin(Fig_residualBackground))>>
                  \o Draws(<<"imshow", "hlines", "hlines", "set_ylabel", "set_xlabel",
                             "scatter", "vlines", "hlines", "hlines", "legend",
                             "set_xlabel", "set_xlim", "set_ylim", "set_yticklabels",
                             "set_xticks", "colorbar", "subplots_adjust">>),
                  fname_residualBackground(m, meta), "0.1"))

curvature ==
    Invoke("curvature", [none |-> TRUE], meta, <<>>,
           Render(meta, Fig_curvature,
                  Draws(<<"title", "plot", "plot", "plot", "legend", "ylabel",
                          "xlabel", "tight_layout">>),
                  fname_curvature, "0.1"))

median_frame ==
    Invoke("median_frame", [none |-> TRUE], meta, <<>>,
           Render(meta, Fig_median_frame,
                  Draws(<<"title", "imshow", "ylabel", "xlabel", "tight_layout">>),
                  fname_median_frame, "0.1"))

-----------------------------------------------------------------------------
(* Specifications                                                          *)

\* a run: the options of the metadata object that plots_s3 reads
MetaOf(vmin, vmax, time_axis, hide, verbose, int_start, int_end) ==
    [outputdir |-> "out/", hide_plots |-> hide, verbose |-> verbose,
     n_int |-> RunCount, num_data_files |-> RunCount,
     int_start |-> int_start, int_end |-> int_end,
     vmin |-> vmin, vmax |-> vmax, time_axis |-> time_axis]

PlotStart ==
    /\ fs = {}
    /\ events = <<>>
    /\ stdout = <<>>
    /\ call = [routine |-> "none", args |-> [none |-> TRUE], wrote |-> <<>>,
               saved |-> <<>>]
    /\ ncalls = 0
    /\ plt = [current |-> None, canvas |-> [f \in Figures |-> <<>>]]
    /\ invoked = {}
    /\ pc = Idle

\* a run of the plotting routines, from a control file that leaves the
\* display options out and asks for a quiet log
PlotInit ==
    /\ \E hide \in BOOLEAN, int_start \in {0, 1}, int_end \in {0, MaxLoop} :
          meta = MetaOf(Absent, Absent, Absent, hide, FALSE, int_start, int_end)
    /\ PlotStart
PlotIdle ==
    /\ meta = MetaOf(Absent, Absent, Absent, TRUE, FALSE, 0, 0)
    /\ PlotStart

\* every state of the display options before lc_nodriftcorr
VminOptions == {Absent, None, Float("0.9"), Float("0.97")}
VmaxOptions == {Absent, None, Float("1.1"), Float("1.03")}
TimeAxisOptions == {Absent, None, Str("y"), Str("x"), Str("z"), Str("Y"), Str("")}
MetaInit ==
    /\ \E vmin \in VminOptions, vmax \in VmaxOptions, ta \in TimeAxisOptions,
          hide \in BOOLEAN :
          meta = MetaOf(vmin, vmax, ta, hide, FALSE, 0, 1)
    /\ PlotStart

Init == MedIdle /\ PadIdle /\ PlotInit
Next ==
    \/ lc_nodriftcorr
    \/ \E m \in Indices(meta.num_data_files) : image_and_background(m)
    \/ image_resume
    \/ drift_2D
    \/ \E n \in Indices(meta.n_int), m \in Indices(meta.num_data_files) :
          optimal_spectrum(n, m)
    \/ \E n \in Indices(meta.n_int), m \in Indices(meta.num_data_files),
          isgauss \in BOOLEAN, isFWM \in BOOLEAN :
          ~(isgauss /\ isFWM) /\ source_position(m, n, isgauss, isFWM)
    \/ \E n \in Indices(meta.n_int), m \in Indices(meta.num_data_files) :
          profile(n, m)
    \/ \E nx \in {RunCount} :
          \E i \in Indices(nx), n \in Indices(meta.n_int),
             m \in Indices(meta.num_data_files) : subdata(i, n, m, nx)
    \/ driftypos
    \/ driftywidth
    \/ \E m \in Indices(meta.num_data_files) : residualBackground(m)
    \/ curvature
    \/ median_frame
Spec == Init /\ [][Next]_vars

\* medstddev on its own
InitMed == MedInit /\ PadIdle /\ PlotIdle
NextMed == Call_medstddev /\ UNCHANGED <<pad_vars, plot_vars>>
SpecMed == InitMed /\ [][NextMed]_vars

\* the padding computation on its own
InitPad == MedIdle /\ PadInit /\ PlotIdle
NextPad == Pad /\ UNCHANGED <<med_vars, plot_vars>>
SpecPad == InitPad /\ [][NextPad]_vars

\* lc_nodriftcorr over every state of the display options
InitMeta == MedIdle /\ PadIdle /\ MetaInit
NextMeta == lc_nodriftcorr
SpecMeta == InitMeta /\ [][NextMeta]_vars

-----------------------------------------------------------------------------
(* Properties of medstddev (under SpecMed)                                 *)

MedReturned == med_out # Pending

\* indices of the finite samples, and of the samples a mask convention keeps
FiniteIdx == {j \in 1..Len(med_in.data) : med_in.data[j].k = "fin"}
KeptWhereNonZero ==
    {j \in FiniteIdx : med_in.mask = None \/ med_in.mask.a[j] # 0}
KeptWhereZero ==
    {j \in FiniteIdx : med_in.mask = None \/ med_in.mask.a[j] = 0}

SampleAt(j) == med_in.data[j].v

\* the k-th smallest sample among the indices S, by counting
KthSmallest(S, k) ==
    CHOOSE x \in {SampleAt(j) : j \in S} :
        /\ Cardinality({j \in S : SampleAt(j) < x}) < k
        /\ k <= Cardinality({j \in S : SampleAt(j) <= x})

\* twice the median of the samples at S
TwiceMedian(S) ==
    LET n == Cardinality(S)
    IN KthSmallest(S, (n + 1) \div 2) + KthSmallest(S, (n + 2) \div 2)

\* four times the sum over S of (sample - c2/2)^2
RECURSIVE FourSumSq(_, _)
FourSumSq(S, c2) ==
    IF S = {} THEN 0
    ELSE LET j == CHOOSE x \in S : TRUE
         IN (2 * SampleAt(j) - c2) * (2 * SampleAt(j) - c2) + FourSumSq(S \ {j}, c2)

\* the returned deviation is sqrt(n/d), the returned median is n/d
StdIs(n, d) ==
    /\ med_out.std.k = "sqrt"
    /\ med_out.std.num * d = n * med_out.std.den
MedIs(n, d) ==
    med_in.medi =>
        /\ med_out.k = "pair"
        /\ med_out.med.k = "rat"
        /\ med_out.med.num * d = n * med_out.med.den
BothNaN ==
    /\ med_out.std = [k |-> "nan"]
    /\ med_in.medi => med_out.med = [k |-> "nan"]

\* the result is the statistic of the samples at S
StatisticOf(S) ==
    LET n == Cardinality(S)
    IN IF n = 0 THEN BothNaN
       ELSE IF n = 1 THEN StdIs(0, 1) /\ MedIs(SampleAt(CHOOSE j \in S : TRUE), 1)
       ELSE /\ StdIs(FourSumSq(S, TwiceMedian(S)), 4 * (n - 1))
            /\ MedIs(TwiceMedian(S), 2)

CalledWith(data, mask) ==
    MedReturned /\ med_in.data = data /\ med_in.mask = mask /\ med_in.medi

\* C1: without a mask and with at least two finite samples, the median is the
\* median of the finite samples and std^2 is the sum of their squared
\* distances to that median over (their number - 1); [1,3,4,5,6,7,7] gives
\* std^2 = 5 and median 5, [NaN,1,4,Inf,6] gives std^2 = 13/2 and median 4.
C1_DeviationAboutMedian ==
    /\ (MedReturned /\ med_in.mask = None /\ Cardinality(FiniteIdx) >= 2)
           => StatisticOf(FiniteIdx)
    /\ CalledWith(TestA, None) => StdIs(5, 1) /\ MedIs(5, 1)
    /\ CalledWith(TestInvalid, None) => StdIs(13, 2) /\ MedIs(4, 1)

C1_Witness == CalledWith(TestInvalid, None) /\ med_out.std.num = 13

\* C2: whenever exactly one sample is finite and kept by the mask, std is 0.0
\* and the median is that sample.
C2_SingleGoodValue ==
    (MedReturned /\ Cardinality(KeptWhereNonZero) = 1)
        => /\ med_out.std = [k |-> "sqrt", num |-> 0, den |-> 1]
           /\ MedIs(SampleAt(CHOOSE j \in KeptWhereNonZero : TRUE), 1)

C2_Witness ==
    /\ CalledWith(TestCritical, TestOneMask)
    /\ med_out.std.k = "sqrt" /\ med_out.med.num = 6

\* C3: whenever no sample is finite and kept by the mask, the call returns
\* with std and median both not-a-number.
C3_NoGoodValue ==
    (med_out # Pending /\ KeptWhereNonZero = {})
        => /\ med_out.k \in {"pair", "std"}
           /\ med_out.std = [k |-> "nan"]
           /\ med_in.medi => med_out.med = [k |-> "nan"]

C3_Witness == CalledWith(TestCritical, TestNoneMask) /\ med_out.std.k = "nan"

\* C4 as stated: the good samples are the finite ones whose mask entry is
\* zero, and the two masked calls of the test give median 3 with std^2 = 5/2
\* and median 6 with std 0.
C4_GoodIffMaskZero ==
    /\ (MedReturned /\ med_in.mask # None) => StatisticOf(KeptWhereZero)
    /\ CalledWith(TestA, TestAMask) => StdIs(5, 2) /\ MedIs(3, 1)
    /\ CalledWith(TestCritical, TestOneMask) => StdIs(0, 1) /\ MedIs(6, 1)

\* C4 amended: the good samples are the finite ones whose mask entry is not
\* zero (a mask entry of 0 marks an excluded sample); the two masked calls of
\* the test give median 3 with std^2 = 5/2 and median 6 with std 0.
C4_GoodIffMaskNonZero ==
    /\ (MedReturned /\ med_in.mask # None) => StatisticOf(KeptWhereNonZero)
    /\ CalledWith(TestA, TestAMask) => StdIs(5, 2) /\ MedIs(3, 1)
    /\ CalledWith(TestCritical, TestOneMask) => StdIs(0, 1) /\ MedIs(6, 1)

C4_Witness == CalledWith(TestA, TestAMask) /\ med_out.med.num = 3

-----------------------------------------------------------------------------
(* Properties of the zero padding (under SpecPad)                          *)

Padded == pad_out # Pending

RECURSIVE Pow10(_)
Pow10(w) == IF w = 0 THEN 1 ELSE 10 * Pow10(w - 1)

\* the number of decimal digits of n >= 1
DigitsOf(n) == CHOOSE w \in 1..8 : Pow10(w - 1) <= n /\ n < Pow10(w)

\* the character codes of the characters that occur in the index fields
CharCode(c) ==
    CASE c = "0" -> 48 [] c = "1" -> 49 [] c = "2" -> 50 [] c = "3" -> 51
      [] c = "4" -> 52 [] c = "5" -> 53 [] c = "6" -> 54 [] c = "7" -> 55
      [] c = "8" -> 56 [] c = "9" -> 57 [] c = "_" -> 95 [] c = "c" -> 99
      [] c = "i" -> 105 [] c = "l" -> 108 [] c = "n" -> 110 [] c = "o" -> 111
      [] c = "t" -> 116

\* s sorts before t, character by character
LexLess(s, t) ==
    \E j \in 1..(Len(t)) :
        /\ \A h \in 1..(j - 1) : h <= Len(s) /\ s[h] = t[h]
        /\ \/ j = Len(s) + 1
           \/ j <= Len(s) /\ CharCode(s[j]) < CharCode(t[j])

\* the decimal value of a string of digits
RECURSIVE DecValue(_)
DecValue(s) ==
    IF s = <<>> THEN 0
    ELSE 10 * DecValue(SubSeq(s, 1, Len(s) - 1)) + (CharCode(s[Len(s)]) - 48)

\* the index fields of a name of files f, integration n and column i
IndexFields(f, n, i) ==
    f \o <<"_", "i", "n", "t">> \o n \o <<"_", "c", "o", "l">> \o i

\* C5 as stated: with 100 files the index 7 is rendered "07", with 1000
\* files "007".
C5_WidthOfLastIndex ==
    /\ (Padded /\ pad_in.count = 100 /\ pad_in.a = 7) => pad_out.sa = <<"0", "7">>
    /\ (Padded /\ pad_in.count = 1000 /\ pad_in.a = 7)
           => pad_out.sa = <<"0", "0", "7">>

\* C5 amended: the width is the number of digits of the count itself, so with
\* a count of 100 the index 7 is rendered "007" and with 1000 "0007"; an index
\* below the count is rendered in exactly that many characters.
C5_WidthOfCount ==
    /\ (Padded /\ pad_in.count = 100 /\ pad_in.a = 7)
           => pad_out.sa = <<"0", "0", "7">>
    /\ (Padded /\ pad_in.count = 1000 /\ pad_in.a = 7)
           => pad_out.sa = <<"0", "0", "0", "7">>
    /\ Padded => /\ Len(pad_out.sa) = DigitsOf(pad_in.count)
                 /\ DecValue(pad_out.sa) = pad_in.a

C5_Witness ==
    Padded /\ pad_in.count = 100 /\ pad_in.a = 7 /\ pad_out.sa = <<"0", "0", "7">>

\* C6: for indices a < b below the count, the padded strings have the same
\* length, fixed by the count, and a's sorts before b's; and names made of
\* such fields sort as the tuples of indices do.
C6_LexicalIsNumeric ==
    (Padded /\ pad_in.a < pad_in.b) =>
        LET sa == pad_out.sa
            sb == pad_out.sb
        IN /\ Len(sa) = Len(sb)
           /\ Len(sa) = DigitsOf(pad_in.count)
           /\ LexLess(sa, sb)
           /\ ~LexLess(sb, sa)
           /\ LexLess(IndexFields(sa, sb, sb), IndexFields(sb, sa, sa))
           /\ LexLess(IndexFields(sa, sa, sb), IndexFields(sa, sb, sa))
           /\ LexLess(IndexFields(sb, sb, sa), IndexFields(sb, sb, sb))

C6_Witness ==
    /\ Padded /\ pad_in.a = 9 /\ pad_in.b = 10
    /\ pad_out.sa = <<"0", "9">> /\ pad_out.sb = <<"1", "0">>

-----------------------------------------------------------------------------
(* Properties of the plotting routines (under Spec and SpecMeta)           *)

Invoked == call.routine # "none"
Returned == Invoked /\ pc = Idle

\* the number of savefig calls among the calls of the last invocation
SaveCount == Cardinality({j \in 1..Len(events) : events[j].op = "savefig"})

\* the figures selected by a sequence of calls
SelectedFigs(evs) ==
    {evs[j].arg.v : j \in {h \in 1..Len(evs) : evs[h].op = "figure"}}

\* C7 as stated: every invocation of every routine saves exactly one file.
C7_OneSavePerInvocation == Returned => SaveCount = 1

\* C7 amended: every invocation that returns saves exactly one file, except
\* that image_and_background saves one file per iteration of its loop, that
\* is max(0, meta.int_end - meta.int_start) files.
C7_OneSavePerFigure ==
    /\ Invoked => Len(call.wrote) = SaveCount
    /\ Returned =>
           IF call.routine = "image_and_background"
           THEN SaveCount = (IF meta.int_end > meta.int_start
                             THEN meta.int_end - meta.int_start ELSE 0)
           ELSE SaveCount = 1

C7_Witness ==
    /\ Returned
    /\ call.routine = "image_and_background"
    /\ meta.int_end - meta.int_start = 2
    /\ SaveCount = 2

\* n written in w digits
RECURSIVE InDigits(_, _)
InDigits(n, w) ==
    IF w = 0 THEN ""
    ELSE InDigits(n \div 10, w - 1)
         \o (CASE n % 10 = 0 -> "0" [] n % 10 = 1 -> "1" [] n % 10 = 2 -> "2"
               [] n % 10 = 3 -> "3" [] n % 10 = 4 -> "4" [] n % 10 = 5 -> "5"
               [] n % 10 = 6 -> "6" [] n % 10 = 7 -> "7" [] n % 10 = 8 -> "8"
               [] n % 10 = 9 -> "9")

\* the zero-padded renderings of an index: every width that holds it
ZeroPadded(n) == {InDigits(n, w) : w \in {v \in 1..4 : n < Pow10(v)}}

Labels ==
    {"2D_LC", "ImageAndBackground", "Drift2D", "Spectrum", "source_pos",
     "Profile", "subdata", "DriftYPos", "DriftYWidth", "ResidualBG",
     "Curvature", "MedianFrame"}

\* the optional components of a name for the last invocation
FileParts ==
    IF "m" \in DOMAIN call.args
    THEN {"_file" \o f : f \in ZeroPadded(call.args.m)} ELSE {""}
IntParts ==
    IF "n" \in DOMAIN call.args
    THEN {"_int" \o f : f \in ZeroPadded(call.args.n)}
    ELSE IF call.routine = "image_and_background"
    THEN UNION {{"_int" \o f : f \in ZeroPadded(n)} : n \in 0..MaxLoop}
    ELSE {""}
ColParts ==
    IF "i" \in DOMAIN call.args
    THEN {"_col" \o f : f \in ZeroPadded(call.args.i)} ELSE {""}

\* path has the form <output_dir>/figs/fig<NNNN>[_file<F>][_int<I>][_col<C>]
\* <sep><Label><ext> with the tag of the figure fig
HasForm(path, fig, sep) ==
    LET head == meta.outputdir \o "figs/fig" \o InDigits(fig, 4)
        rest == Len(path) - Len(head) - Len(sep) - Len(figure_filetype)
    IN \E f \in FileParts, n \in IntParts, c \in ColParts, label \in Labels :
           /\ Len(f) + Len(n) + Len(c) + Len(label) = rest
           /\ path = head \o f \o n \o c \o sep \o label \o figure_filetype

WellFormed(sep) ==
    Invoked =>
        \A path \in Range(call.wrote) :
            \E fig \in SelectedFigs(events) :
                fig \in 1000..9999 /\ HasForm(path, fig, sep)

\* two invocations in a row of different routines select different figures
DistinctTags ==
    (Invoked /\ call'.routine # call.routine)
        => SelectedFigs(events) \cap SelectedFigs(events') = {}

\* C8 as stated: every path written is <output_dir>/figs/fig<NNNN>, the
\* optional file, integration and column components, an underscore, the label
\* and the extension; NNNN is the figure drawn on, and differs between routines.
C8_PathForm == [](WellFormed("_")) /\ [][DistinctTags]_vars

\* C8 amended: as stated, except that lc_nodriftcorr joins tag and label with
\* a hyphen (fig3101-2D_LC) where the other eleven routines use an underscore.
C8_PathFormButHyphen ==
    /\ [](WellFormed(IF call.routine = "lc_nodriftcorr" THEN "-" ELSE "_"))
    /\ [][DistinctTags]_vars

C8_Witness ==
    /\ call.routine = "subdata"
    /\ call.wrote = <<"out/figs/fig3501_file09_int00_col09_subdata.png">>

WasUnset(v) == v = [k |-> "absent"] \/ v = [k |-> "None"]
IsLcStep == ncalls' = ncalls + 1 /\ call'.routine = "lc_nodriftcorr"

\* C9: after lc_nodriftcorr both colour-scale bounds are set: vmin is 0.97 and
\* vmax is 1.03 where they were absent or None, and configured bounds are kept.
C9_BoundsDefaulted ==
    [][IsLcStep =>
        /\ ~WasUnset(meta'.vmin) /\ ~WasUnset(meta'.vmax)
        /\ meta'.vmin = (IF WasUnset(meta.vmin)
                         THEN [k |-> "float", v |-> "0.97"] ELSE meta.vmin)
        /\ meta'.vmax = (IF WasUnset(meta.vmax)
                         THEN [k |-> "float", v |-> "1.03"] ELSE meta.vmax)]_vars

AxisY == [k |-> "str", v |-> "y"]
AxisX == [k |-> "str", v |-> "x"]

\* C10: lc_nodriftcorr can always run; an absent or None time_axis becomes 'y'
\* silently, any other value outside {'y','x'} becomes 'y' with a warning,
\* 'y' and 'x' are kept silently; the figure is drawn with 'y' or 'x'; and a
\* second call in a row changes nothing and prints nothing.
C10_TimeAxis ==
    /\ [](ncalls < MaxCalls => ENABLED lc_nodriftcorr)
    /\ [](\A j \in 1..Len(events) :
              events[j].op = "imshow" /\ call.routine = "lc_nodriftcorr"
                  => events[j].arg.time_axis \in {AxisY, AxisX})
    /\ [][IsLcStep =>
            /\ WasUnset(meta.time_axis)
                   => meta'.time_axis = AxisY /\ stdout' = <<>>
            /\ (~WasUnset(meta.time_axis) /\ meta.time_axis \notin {AxisY, AxisX})
                   => meta'.time_axis = AxisY /\ Len(stdout') = 1
            /\ meta.time_axis \in {AxisY, AxisX}
                   => meta'.time_axis = meta.time_axis /\ stdout' = <<>>
            /\ call.routine = "lc_nodriftcorr"
                   => meta' = meta /\ stdout' = <<>>]_vars

C10_Witness ==
    /\ call.routine = "lc_nodriftcorr"
    /\ ncalls = 2
    /\ stdout = <<>>
    /\ meta.time_axis = AxisY
    /\ \E j \in 1..Len(events) :
           events[j].op = "imshow" /\ events[j].arg.time_axis = AxisY

-----------------------------------------------------------------------------
(* Properties of the written paths across invocations (under Spec)         *)

\* the routine and indices of the invocation a step belongs to, and the
\* paths the step writes
NewCall == [routine |-> call'.routine, args |-> call'.args]
StepWrote ==
    IF pc = Idle THEN call'.wrote
    ELSE SubSeq(call'.wrote, Len(call.wrote) + 1, Len(call'.wrote))

\* the routine and indices of the invocations that returned
Keys == {[routine |-> inv.routine, args |-> inv.args] : inv \in invoked}

\* the iterations of the loop of image_and_background
LoopCount ==
    IF meta.int_end > meta.int_start THEN meta.int_end - meta.int_start ELSE 0

\* one entry per file the invocations made so far have to account for: one
\* per routine and indices, and for image_and_background one per file index
\* and iteration of its loop
Written ==
    UNION {{<<inv, n>> : n \in (IF inv.routine = "image_and_background"
                                THEN 0..(LoopCount - 1) ELSE {0})} :
           inv \in Keys}

\* invocations with the same routine and indices wrote the same paths
SamePathOnRepeat ==
    \A a, b \in invoked :
        (a.routine = b.routine /\ a.args = b.args) => a.wrote = b.wrote

\* no step of an invocation with a routine and indices invoked before adds a
\* file
OverwritesOnRepeat == NewCall \in Keys => fs' = fs

\* every step of an invocation that differs from every earlier one in its
\* routine or in an index writes paths that did not exist, each a different
\* one
FreshPathsOnDiffer ==
    NewCall \notin Keys =>
        /\ Range(StepWrote) \cap fs = {}
        /\ Cardinality(fs') = Cardinality(fs) + Len(StepWrote)

\* C11 as stated: the same routine and indices give the same path, the files
\* under figs/ are one per distinct routine and indices invoked, repeated
\* invocations overwrite, and invocations that differ in the routine or in
\* an index write different paths.
C11_OneFilePerInvocation ==
    /\ [](SamePathOnRepeat /\ (pc = Idle => Cardinality(fs) = Cardinality(Keys)))
    /\ [][OverwritesOnRepeat /\ FreshPathsOnDiffer]_vars

\* C11 amended: the same routine and indices give the same paths, repeated
\* invocations overwrite, invocations that differ in the routine or in an
\* index write different paths, and the files under figs/ are one per
\* distinct routine and indices invoked once every invocation has returned,
\* except that image_and_background
\* accounts for one file per file index m and iteration n of its loop, that
\* is for max(0, meta.int_end - meta.int_start) files per distinct m.
C11_OneFilePerFigure ==
    /\ [](SamePathOnRepeat /\ (pc = Idle => Cardinality(fs) = Cardinality(Written)))
    /\ [][OverwritesOnRepeat /\ FreshPathsOnDiffer]_vars

\* image_and_background invoked twice for the same file with a loop of two
\* iterations: two files
C11_Witness ==
    /\ ncalls = 2
    /\ pc = Idle
    /\ Keys = {[routine |-> "image_and_background", args |-> [m |-> 0]]}
    /\ LoopCount = 2
    /\ Len(call.wrote) = 2
    /\ Cardinality(fs) = 2

-----------------------------------------------------------------------------
(* Properties of the order of the rendering calls (under Spec)             *)

\* the figure of each routine
FigureOf(routine) ==
    CASE routine = "lc_nodriftcorr" -> Fig_lc_nodriftcorr
      [] routine = "image_and_background" -> Fig_image_and_background
      [] routine = "drift_2D" -> Fig_drift_2D
      [] routine = "optimal_spectrum" -> Fig_optimal_spectrum
      [] routine = "source_position" -> Fig_source_position
      [] routine = "profile" -> Fig_profile
      [] routine = "subdata" -> Fig_subdata
      [] routine = "driftypos" -> Fig_driftypos
      [] routine = "driftywidth" -> Fig_driftywidth
      [] routine = "residualBackground" -> Fig_residualBackground
      [] routine = "curvature" -> Fig_curvature
      [] routine = "median_frame" -> Fig_median_frame

\* a call that draws on the figure: a drawing call, or the subplots(num=)
\* that lays out the axes of the routine's own figure
OnFigure(j) ==
    \/ IsDraw(events[j])
    \/ /\ events[j].op = "subplots"
       /\ events[j].arg = Fin(FigureOf(call.routine))

\* the drawing calls made between the last clf before call s and call s
DrawnSinceClear(s) ==
    LET C == {i \in 1..(s - 1) : events[i].op = "clf"}
        from == IF C = {} THEN 0 ELSE Last(C)
        D == SelectSeq([i \in 1..(s - 1) |-> i],
                       LAMBDA i : i > from /\ IsDraw(events[i]))
    IN  [k \in 1..Len(D) |-> events[D[k]].op]

SaveIndices ==
    SelectSeq([i \in 1..Len(events) |-> i], LAMBDA i : events[i].op = "savefig")

\* C12: in every invocation, and in every iteration of the loop of
\* image_and_background, the calls come in the order figure (the routine's
\* own), clf, drawing calls, savefig, pause; every drawing call follows the
\* clf, so each saved image holds the drawing calls of this invocation only;
\* a pause directly follows a savefig and there is one after every savefig
\* if and only if meta.hide_plots is false.
C12_RenderOrder ==
    Invoked =>
        /\ \A j \in 1..Len(events) :
              LET op == events[j].op
                  before == IF j > 1 THEN events[j - 1].op ELSE "start"
                  after == IF j < Len(events) THEN events[j + 1].op ELSE "end"
              IN  /\ op = "figure" =>
                         /\ events[j].arg = Fin(FigureOf(call.routine))
                         /\ before \in {"start", "writelog", "savefig", "pause"}
                         /\ after = "clf"
                  /\ op = "clf" => before = "figure"
                  /\ (op # "figure" /\ OnFigure(j)) =>
                         /\ j > 1
                         /\ before = "clf" \/ OnFigure(j - 1)
                  /\ op = "subplots" => OnFigure(j)
                  /\ op = "savefig" =>
                         /\ j > 1
                         /\ before = "clf" \/ OnFigure(j - 1)
                         /\ after = "pause" <=> ~meta.hide_plots
                         /\ after \in {"pause", "figure", "end"}
                  /\ op = "pause" =>
                         /\ before = "savefig"
                         /\ ~meta.hide_plots
                         /\ after \in {"figure", "end"}
                  /\ op = "writelog" => j = 1
        /\ Len(call.saved) = Len(SaveIndices)
        /\ \A k \in 1..Len(SaveIndices) :
              call.saved[k] = DrawnSinceClear(SaveIndices[k])

\* the second invocation of image_and_background for one file, two
\* iterations each, shown on screen: both images hold one iteration's drawing
C12_Witness ==
    /\ ncalls = 2
    /\ pc = Idle
    /\ Keys = {[routine |-> "image_and_background", args |-> [m |-> 9]]}
    /\ ~meta.hide_plots
    /\ Len(call.saved) = 2
    /\ call.saved[1] = call.saved[2]
    /\ Len(call.saved[2]) = Len(image_draws)
    /\ events[Len(events)].op = "pause"
    /\ plt.canvas[Fig_image_and_background] = call.saved[2]

====
